---- MODULE Spec2Model ----
(***************************************************************************)
(* build-tool: a pipeline engine (engine.py) that dispatches ordered       *)
(* actions (action/action.py) onto a Perforce backend (scm/perforce.py).   *)
(*                                                                         *)
(* Two specifications share the same handler steps:                        *)
(*   Spec     the program: Build.load_pipeline, then Build.run             *)
(*   SpecSCM  one PerforceSCM object driven through its public methods     *)
(*            checkout(revision), upload(paths, message), cleanup()        *)
(* Every depot RPC is one step whose outcome the depot chooses.            *)
(***************************************************************************)
EXTENDS Integers, Sequences, FiniteSets, TLC

\* ------------------------------------------------------------ bounds
MaxActions == 2      \* longest pipeline
MaxCalls == 2        \* SCM method calls made on the one object of SpecSCM
NumFiles == 2        \* files a glob pattern can expand to
MaxPaths == 1        \* patterns in one upload(paths=...)
MaxRef == 7          \* characters of a secret reference after its vault:// prefix

\* --------------------------------------------------------- constants
None == "None"
DEFAULT_SUBMIT_MESSAGE == "Auto-generated commit"
Files == 1..NumFiles
Revisions == {None, "r1"}
Messages == {None, "fix"}
ScmNames == {"main"}
Chars == {"a", "b", "/", "#"}

VARIABLES
    pipeline,     \* the loaded pipeline document: sequence of action configs
    scm_config,   \* the scm section: sync_force, server_trust
    handlers,     \* Build.actions: the handlers constructed so far
    pc,           \* engine position: load, run, done, load_failed, run_failed; api in SpecSCM
    cur,          \* index of the action Build.run is executing (0: none yet)
    hpc,          \* position inside the running handler / SCM method
    callv,        \* arguments of the running SCM method
    loc,          \* its locals: in_sync, has_changes, paths, matching_files, commands,
                  \* in_client: the body of `with self._in_client():` was entered,
                  \* client: the spec _create_client fetched
    conn,         \* per handler: the PerforceConnection's state
    cwd,          \* process working directory: "prev" or "root"
    exc,          \* the exception that ended the last call, or None
    depot,        \* depot side: the client's default changelist, the workspace specs by
                  \* client name; and root_exists: the client root is on disk
    ncalls,       \* history: number of SCM method calls begun
    rpcs,         \* history: the depot RPCs issued for the running (or last) action / call
    events,       \* history: the started / completed prints
    shell,        \* history: every shell command run
    config,       \* the Config singleton: main.vault_address / vault_token present,
                  \* and the perforce_connection section's values in key order
    connection_config,  \* the section the last get_connection_config() returned
    vault_reads,  \* history: every read_secret_version call made on the secret store
    applied       \* history of SpecWS: the depot and the disk after each _create_client

vars == <<pipeline, scm_config, handlers, pc, cur, hpc, callv, loc, conn, cwd,
          exc, depot, ncalls, rpcs, events, shell, config, connection_config,
          vault_reads, applied>>

\* what only loading a configuration section touches
vault_vars == <<config, connection_config, vault_reads>>

\* ------------------------------------------------------- input domains
CheckoutConfigs ==
    { [kind |-> "checkout", scm_name |-> s, revision |-> r, message |-> None,
       commands |-> <<>>] : s \in ScmNames \cup {"ghost"}, r \in Revisions }

UploadConfigs ==
    { [kind |-> "upload", scm_name |-> s, revision |-> None, message |-> m,
       commands |-> <<>>] : s \in ScmNames, m \in Messages }

CommandConfigs ==
    { [kind |-> "command", scm_name |-> None, revision |-> None, message |-> None,
       commands |-> c] : c \in { <<"c1">>, <<"c1", "c2">> } }

\* a config whose only key is not a known kind, or that has no key beside its name
UnknownConfigs ==
    { [kind |-> k, scm_name |-> None, revision |-> None, message |-> None,
       commands |-> <<>>] : k \in {"deploy", None} }

ActionConfigs == CheckoutConfigs \cup UploadConfigs \cup CommandConfigs \cup UnknownConfigs

Pipelines == UNION { [1..n -> ActionConfigs] : n \in 0..MaxActions }

\* glob.glob(pattern): the files a pattern expands to, in directory order
Patterns ==
    UNION { { s \in [1..n -> Files] : \A i, j \in 1..n : i < j => s[i] < s[j] }
            : n \in 0..NumFiles }

PathLists == UNION { [1..n -> Patterns] : n \in 0..MaxPaths }

ScmTypes == {"perforce", "svn"}

ScmConfigs == [type : ScmTypes, sync_force : BOOLEAN, server_trust : BOOLEAN]

\* the text of a secret reference after 'vault://'
Addresses == UNION { [1..n -> Chars] : n \in 0..MaxRef }

\* a value of a configuration section: ref says it starts with 'vault://', text is
\* what follows the prefix (the whole value when it is no reference)
Plain == [ref |-> FALSE, text |-> <<"a">>]
Reference(address) == [ref |-> TRUE, text |-> address]

\* an absent text (Python's None); the empty text is <<>>
NoText == <<"None">>

\* the value a secret read yields
SecretText == <<"*">>

\* the [main] section: are vault_address and vault_token given
MainConfigs ==
    { [vault_address |-> TRUE, vault_token |-> TRUE],
      [vault_address |-> FALSE, vault_token |-> TRUE],
      [vault_address |-> TRUE, vault_token |-> FALSE] }

\* the perforce_connection sections a pipeline is run with: username, password
ConnectionSections ==
    { <<Plain, Plain>>,
      <<Plain, Reference(<<"a", "/", "b", "#", "a">>)>>,
      <<Reference(<<"a", "/", "a", "#", "b">>), Reference(<<"a", "/", "b", "#", "a">>)>>,
      <<Plain, Reference(<<"a", "/", "b">>)>> }

NoSection == <<>>

NoCall == [op |-> None, revision |-> None, paths |-> <<>>, message |-> None,
           status |-> None]

\* PerforceSCM.__init__: client_name, and the definition _create_client applies
client_name == "BUILD-TOOL-host"
ClientNames == {client_name, "other"}
Stream == "//depot_name/stream_name"
Root == "client_root"
Options == "rmdir allwrite"

\* a workspace spec: the three fields _create_client sets and one it leaves alone
NoSpec == [Stream |-> None, Root |-> None, Options |-> None, Description |-> None]

\* fetch_client of a name the depot does not know yields the default spec
DefaultSpec == [Stream |-> None, Root |-> "cwd", Options |-> "noallwrite normdir",
                Description |-> "Created by user."]

WorkspaceSpecs ==
    [Stream : {Stream, "//depot_name/old"}, Root : {Root, "elsewhere"},
     Options : {Options, "noallwrite normdir"},
     Description : {"Created by user.", "custom"}]

\* the workspaces a depot can hold when the program starts
NoClients == [n \in {} |-> NoSpec]
ClientMaps == UNION { [names -> WorkspaceSpecs] : names \in SUBSET ClientNames }

NoLocals == [in_client |-> FALSE, in_sync |-> FALSE, has_changes |-> FALSE,
             paths |-> <<>>, matching_files |-> <<>>, commands |-> <<>>,
             client |-> NoSpec]

Disconnected == [connected |-> FALSE, logged_in |-> FALSE, client |-> FALSE,
                 setup |-> <<>>]

\* the handler (and so the connection) the running step belongs to
self == IF pc \in {"api", "ws"} THEN 1 ELSE cur

\* ------------------------------------------------------------ helpers
\* one depot RPC as issued on the running handler's connection
Rpc(op, res) ==
    [conn |-> self, op |-> op, dry |-> FALSE, force |-> FALSE, rev |-> None,
     file |-> 0, msg |-> None, files |-> {}, res |-> res]

Issue(r) == rpcs' = Append(rpcs, r)

SetConn(c) == conn' = [conn EXCEPT ![self] = c]

\* variant: run() swallows the exception and goes on with the next action
PropagateSwallowed == pc

\* Build.run has no try/except around action.execute(): the exception leaves run()
Propagate == IF pc = "run" THEN "run_failed" ELSE pc

\* an exception leaves the running handler; _in_client's finally restores the directory
Raise(e) ==
    /\ exc' = e
    /\ hpc' = "raised"
    /\ cwd' = "prev"
    /\ callv' = [callv EXCEPT !.status = IF @ = "running" THEN "raised" ELSE @]
    /\ pc' = Propagate

\* the SCM method returns normally
Return ==
    /\ hpc' = "returned"
    /\ cwd' = "prev"
    /\ callv' = [callv EXCEPT !.status = "ok"]
    /\ UNCHANGED <<exc, pc>>

\* an SCM method is entered: cleanup() goes straight to logout, the others into _in_client
BeginCall(op, revision, paths, message) ==
    /\ callv' = [op |-> op, revision |-> revision, paths |-> paths,
                 message |-> message, status |-> "running"]
    /\ loc' = [NoLocals EXCEPT !.paths = paths]
    /\ hpc' = IF op = "cleanup" THEN "logout" ELSE "enter"
    /\ ncalls' = ncalls + 1
    /\ exc' = None

\* ------------------------------------------------------------- Config
\* str.split(sep): the pieces of s between the occurrences of sep
RECURSIVE SplitFrom(_, _, _)
SplitFrom(s, sep, piece) ==
    IF s = <<>> THEN <<piece>>
    ELSE IF Head(s) = sep THEN <<piece>> \o SplitFrom(Tail(s), sep, <<>>)
    ELSE SplitFrom(Tail(s), sep, Append(piece, Head(s)))

Split(s, sep) == SplitFrom(s, sep, <<>>)

\* sep.join(parts)
RECURSIVE Join(_, _)
Join(parts, sep) ==
    IF parts = <<>> THEN <<>>
    ELSE IF Len(parts) = 1 THEN parts[1]
    ELSE parts[1] \o <<sep>> \o Join(Tail(parts), sep)

\* _read_secret_from_vault: secret_address.split('#')
secret_address_parts(secret_address) == Split(secret_address, "#")

full_secret_path(secret_address) == secret_address_parts(secret_address)[1]

\* secret_address_parts[1] if len(secret_address_parts) > 1 else None
secret_key(secret_address) ==
    IF Len(secret_address_parts(secret_address)) > 1
    THEN secret_address_parts(secret_address)[2]
    ELSE NoText

\* full_secret_path.split('/')
secret_path_parts(secret_address) == Split(full_secret_path(secret_address), "/")

secret_mount(secret_address) == secret_path_parts(secret_address)[1]

\* variant: only the segment after the mount is taken for the path
secret_path_one_segment(secret_address) ==
    IF Len(secret_path_parts(secret_address)) > 1
    THEN secret_path_parts(secret_address)[2]
    ELSE NoText

\* '/'.join(secret_path_parts[1:]) if len(secret_path_parts) > 1 else None
secret_path(secret_address) ==
    IF Len(secret_path_parts(secret_address)) > 1
    THEN Join(Tail(secret_path_parts(secret_address)), "/")
    ELSE NoText

\* `not x` of an optional text
Falsy(text) == text \in {NoText, <<>>}

\* what the secret store can answer a read: the data holding the key, data without
\* the key, no data, or an error
StoreAnswers == {"found", "no_key", "no_secret", "error"}

NoRead == [raised |-> None, reads |-> <<>>, value |-> NoText]

\* _read_secret_from_vault(secret_address), the store answering `answer`: the exception
\* raised if any, the read_secret_version calls made (mount_point, path, and the key
\* then looked up in the data) and the secret returned; `built` notes how many handlers
\* were constructed before the call
ReadSecret(secret_address, answer) ==
    IF ~config.main.vault_address \/ ~config.main.vault_token
      THEN [NoRead EXCEPT !.raised = "ValueError"]
    ELSE IF Falsy(secret_key(secret_address))
      THEN [NoRead EXCEPT !.raised = "ValueError"]
    ELSE IF Falsy(secret_mount(secret_address))
      THEN [NoRead EXCEPT !.raised = "ValueError"]
    ELSE LET read == [mount |-> secret_mount(secret_address),
                      path |-> secret_path(secret_address),
                      key |-> secret_key(secret_address),
                      built |-> Len(handlers)]
         IN IF answer = "found"
            THEN [raised |-> None, reads |-> <<read>>, value |-> SecretText]
            ELSE [raised |-> "ValueError", reads |-> <<read>>, value |-> NoText]

\* retrieve_secrets_from_vault(config_section): every value starting with 'vault://'
\* is replaced by the secret read for it, in key order; the first failure is raised
\* and no section is returned
RECURSIVE RetrieveFrom(_, _, _)
RetrieveFrom(section, answers, k) ==
    IF k > Len(section) THEN [raised |-> None, reads |-> <<>>, section |-> section]
    ELSE IF ~section[k].ref THEN RetrieveFrom(section, answers, k + 1)
    ELSE LET r == ReadSecret(section[k].text, answers[k]) IN
         IF r.raised # None
         THEN [raised |-> r.raised, reads |-> r.reads, section |-> NoSection]
         ELSE LET rest == RetrieveFrom([section EXCEPT ![k] = [ref |-> FALSE,
                                                               text |-> r.value]],
                                       answers, k + 1)
              IN [rest EXCEPT !.reads = r.reads \o @]

\* Config.get_connection_config(name): a deep copy of the section, its secrets resolved
GetConnectionConfig(answers) == RetrieveFrom(config.perforce_connection, answers, 1)

\* ------------------------------------------------- Build.load_pipeline
\* variant: any key is taken for an action kind
KnownKindAny(kind) == TRUE

\* Action.__init__: the kinds its loop over the config's keys recognises
KnownKind(kind) == kind \in {"checkout", "command", "upload"}

IsScm(cfg) == cfg.kind \in {"checkout", "upload"}

\* variant: SCM(build.scms[scm_name]) without the deepcopy, pop('type') empties the
\* pipeline's own entry
StoredAfterPop(stored) == [stored EXCEPT !.type = None]

\* BaseSCMAction.__init__: scm_config = deepcopy(build.scms[scm_name]); SCM.__init__
\* pops 'type' from the copy, build.scms keeps its entry
StoredAfter(stored) == stored

\* BaseSCMAction.__init__: scm_name must name an entry of build.scms; SCM.__init__:
\* its type must be 'perforce'
Constructs(cfg) ==
    /\ KnownKind(cfg.kind)
    /\ IsScm(cfg) => cfg.scm_name \in ScmNames /\ scm_config.type = "perforce"

\* the handler Action.__init__ builds; SCMCheckoutAction is built without a revision
\* argument, so its revision is the default None whatever the config declares
Handler(cfg) ==
    [kind |-> cfg.kind,
     revision |-> None,
     message |-> IF cfg.message = None THEN DEFAULT_SUBMIT_MESSAGE ELSE cfg.message,
     commands |-> cfg.commands]

ConstructError(cfg) ==
    IF ~KnownKind(cfg.kind) THEN "AttributeError"
    ELSE IF cfg.scm_name \notin ScmNames THEN "KeyError"
    ELSE "ValueError"

\* Action(self, action_config): the handler is constructed; an SCM-backed one builds
\* SCM -> PerforceSCM -> PerforceConnection, which fetches its connection section
LoadAction ==
    /\ pc = "load"
    /\ Len(handlers) < Len(pipeline)
    /\ LET cfg == pipeline[Len(handlers) + 1] IN
         IF ~Constructs(cfg)
         THEN /\ pc' = "load_failed"
              /\ exc' = ConstructError(cfg)
              /\ UNCHANGED <<handlers, scm_config, connection_config, vault_reads>>
         ELSE IF ~IsScm(cfg)
         THEN /\ handlers' = Append(handlers, Handler(cfg))
              /\ UNCHANGED <<pc, exc, scm_config, connection_config, vault_reads>>
         ELSE \E answers \in [1..Len(config.perforce_connection) -> StoreAnswers] :
                LET got == GetConnectionConfig(answers) IN
                  /\ scm_config' = StoredAfter(scm_config)
                  /\ vault_reads' = vault_reads \o got.reads
                  /\ connection_config' = got.section
                  /\ IF got.raised = None
                     THEN /\ handlers' = Append(handlers, Handler(cfg))
                          /\ UNCHANGED <<pc, exc>>
                     ELSE /\ pc' = "load_failed"
                          /\ exc' = got.raised
                          /\ UNCHANGED handlers
    /\ UNCHANGED <<config, applied, pipeline, cur, hpc, callv, loc, conn, cwd, depot,
                   ncalls, rpcs, events, shell>>

\* engine.py __main__: Build(...) has returned, engine.run() is entered
BuildRun ==
    /\ pc = "load"
    /\ Len(handlers) = Len(pipeline)
    /\ pc' = "run"
    /\ UNCHANGED <<vault_vars, applied, pipeline, scm_config, handlers, cur, hpc, callv, loc, conn, cwd,
                   exc, depot, ncalls, rpcs, events, shell>>

\* ------------------------------------------------------------ Build.run
\* control is in the for loop of Build.run, no action.execute() on the stack
BetweenHandlers == hpc \in {"idle", "raised"}

\* Action.execute prints "Started", then the handler's execute() begins
StartAction ==
    /\ pc = "run"
    /\ BetweenHandlers
    /\ cur < Len(handlers)
    /\ cur' = cur + 1
    /\ events' = Append(events, <<"started", cur + 1>>)
    /\ LET h == handlers[cur + 1] IN
         CASE h.kind = "checkout" ->
                /\ BeginCall("checkout", h.revision, <<>>, None)
           [] h.kind = "upload" ->
                \* SCM.upload() takes no arguments: paths=None, message=None
                /\ BeginCall("upload", None, <<>>, None)
           [] OTHER ->
                /\ loc' = [NoLocals EXCEPT !.commands = h.commands]
                /\ hpc' = IF h.commands = <<>> THEN "returned" ELSE "cmd"
                /\ callv' = NoCall
                /\ exc' = None
                /\ UNCHANGED ncalls
    /\ rpcs' = <<>>
    /\ UNCHANGED <<vault_vars, applied, pipeline, scm_config, handlers, pc, conn, cwd, depot, shell>>

\* variant: subprocess.run without check=True, the exit status is not looked at
CommandFailedNever(status) == FALSE

\* subprocess.run(..., check=True) raises CalledProcessError on a non-zero exit status
CommandFailed(status) == status # 0

\* CommandAction.execute: subprocess.run(command, shell=True, check=True)
RunCommand ==
    /\ pc = "run"
    /\ hpc = "cmd"
    /\ \E status \in {0, 1} :
         /\ shell' = Append(shell, [act |-> cur, cmd |-> Head(loc.commands),
                                    status |-> status])
         /\ IF ~CommandFailed(status)
            THEN /\ loc' = [loc EXCEPT !.commands = Tail(@)]
                 /\ hpc' = IF Tail(loc.commands) = <<>> THEN "returned" ELSE "cmd"
                 /\ UNCHANGED <<exc, cwd, callv, pc>>
            ELSE /\ Raise("RuntimeError")
                 /\ UNCHANGED loc
    /\ UNCHANGED <<vault_vars, applied, pipeline, scm_config, handlers, cur, conn, depot, ncalls, rpcs,
                   events>>

\* SCMCheckoutAction / SCMUploadAction.execute: super().execute() after the SCM
\* operation returned, i.e. BaseSCMAction.execute -> scm.cleanup()
HandlerCleanup ==
    /\ pc = "run"
    /\ hpc = "returned"
    /\ callv.op \in {"checkout", "upload"}
    /\ BeginCall("cleanup", None, <<>>, None)
    /\ UNCHANGED <<vault_vars, applied, pipeline, scm_config, handlers, pc, cur, conn, cwd, depot, rpcs,
                   events, shell>>

\* variant: "completed" is printed once the SCM operation returned, its cleanup due
HandlerReturnedEarly == hpc = "returned"

\* self.action.execute() has returned: a command handler's loop is over, an SCM-backed
\* handler's super().execute() has returned
HandlerReturned == hpc = "returned" /\ callv.op \notin {"checkout", "upload"}

\* Action.execute prints "completed successfully" once the handler returned
ActionCompleted ==
    /\ pc = "run"
    /\ HandlerReturned
    /\ events' = Append(events, <<"completed", cur>>)
    /\ hpc' = "idle"
    /\ UNCHANGED <<vault_vars, applied, pipeline, scm_config, handlers, pc, cur, callv, loc, conn, cwd,
                   exc, depot, ncalls, rpcs, shell>>

\* the for loop of Build.run is exhausted
RunDone ==
    /\ pc = "run"
    /\ BetweenHandlers
    /\ cur = Len(handlers)
    /\ pc' = "done"
    /\ UNCHANGED <<vault_vars, applied, pipeline, scm_config, handlers, cur, hpc, callv, loc, conn, cwd,
                   exc, depot, ncalls, rpcs, events, shell>>

\* ------------------------------------------------ PerforceSCM._in_client
Running == pc \in {"run", "api", "ws"}

Results == {"ok", "error"}

\* a setup RPC is noted on the connection until the next cleanup()
Noted(c, op, res) == [c EXCEPT !.setup = Append(@, <<op, res>>)]

\* variant: _connect() is run on every entry
NeedsConnectAlways(c) == TRUE

\* _in_client: if not self._connection.connected(): self._connect()
NeedsConnect(c) == ~c.connected

EnterClient ==
    /\ Running
    /\ hpc = "enter"
    /\ hpc' = IF NeedsConnect(conn[self]) THEN "connect" ELSE "chdir"
    /\ UNCHANGED <<vault_vars, applied, pipeline, scm_config, handlers, pc, cur, callv, loc, conn, cwd,
                   exc, depot, ncalls, rpcs, events, shell>>

\* variant: the trust handshake is left out
AfterConnectNoTrust == "login"

\* _connect: if self.server_trust: run_trust('-d'); run_trust('-y', '-f')
AfterConnect == IF scm_config.server_trust THEN "trust_d" ELSE "login"

\* _connect: self._connection.connect()
Connect ==
    /\ Running
    /\ hpc = "connect"
    /\ \E res \in Results :
         /\ Issue(Rpc("connect", res))
         /\ IF res = "ok"
            THEN /\ SetConn([Noted(conn[self], "connect", res) EXCEPT !.connected = TRUE])
                 /\ hpc' = AfterConnect
                 /\ UNCHANGED <<exc, cwd, callv, pc>>
            ELSE /\ SetConn(Noted(conn[self], "connect", res))
                 /\ Raise("P4Exception")
    /\ UNCHANGED <<vault_vars, applied, pipeline, scm_config, handlers, cur, loc, depot, ncalls, events,
                   shell>>

\* a setup RPC that changes nothing this model tracks: on success go to `next`
SetupStep(at, op, next) ==
    /\ Running
    /\ hpc = at
    /\ \E res \in Results :
         /\ Issue(Rpc(op, res))
         /\ SetConn(Noted(conn[self], op, res))
         /\ IF res = "ok"
            THEN /\ hpc' = next
                 /\ UNCHANGED <<exc, cwd, callv, pc>>
            ELSE Raise("P4Exception")
    /\ UNCHANGED <<vault_vars, applied, pipeline, scm_config, handlers, cur, loc, depot, ncalls, events,
                   shell>>

\* run_trust('-d')
TrustReset == SetupStep("trust_d", "trust_reset", "trust_y")

\* run_trust('-y', '-f')
TrustAccept == SetupStep("trust_y", "trust_accept", "login")

\* run_login()
Login ==
    /\ Running
    /\ hpc = "login"
    /\ \E res \in Results :
         /\ Issue(Rpc("login", res))
         /\ IF res = "ok"
            THEN /\ SetConn([Noted(conn[self], "login", res) EXCEPT !.logged_in = TRUE])
                 /\ hpc' = "fetch"
                 /\ UNCHANGED <<exc, cwd, callv, pc>>
            ELSE /\ SetConn(Noted(conn[self], "login", res))
                 /\ Raise("P4Exception")
    /\ UNCHANGED <<vault_vars, applied, pipeline, scm_config, handlers, cur, loc, depot, ncalls, events,
                   shell>>

\* fetch_client(name): the spec the depot holds under the name, or the default one
Fetched(clients, name) ==
    IF name \in DOMAIN clients THEN clients[name] ELSE DefaultSpec

\* _create_client: client['Stream'], client['Root'], client['Options'] are set
Defined(client) ==
    [client EXCEPT !.Stream = Stream, !.Root = Root, !.Options = Options]

\* save_client(client): the depot stores the spec under its name
Saved(clients, name, client) ==
    [n \in DOMAIN clients \cup {name} |-> IF n = name THEN client ELSE clients[n]]

\* variant: os.makedirs(client_root) without exist_ok
MakedirsRaisesIfExists(exists) == exists

\* os.makedirs(client_root, exist_ok=True) does not raise on an existing directory
MakedirsRaises(exists) == FALSE

\* _create_client: client = fetch_client(self.client_name), then its three fields
FetchClient ==
    /\ Running
    /\ hpc = "fetch"
    /\ \E res \in Results :
         /\ Issue(Rpc("fetch_client", res))
         /\ SetConn(Noted(conn[self], "fetch_client", res))
         /\ IF res = "ok"
            THEN /\ loc' = [loc EXCEPT !.client = Defined(Fetched(depot.clients, client_name))]
                 /\ hpc' = "save"
                 /\ UNCHANGED <<exc, cwd, callv, pc>>
            ELSE /\ Raise("P4Exception")
                 /\ UNCHANGED loc
    /\ UNCHANGED <<vault_vars, applied, pipeline, scm_config, handlers, cur, depot, ncalls,
                   events, shell>>

\* _create_client: save_client(client); connection.client = client_name;
\* os.makedirs(client_root, exist_ok=True)
SaveClient ==
    /\ Running
    /\ hpc = "save"
    /\ \E res \in Results :
         /\ Issue(Rpc("save_client", res))
         /\ IF res = "ok"
            THEN /\ SetConn([Noted(conn[self], "save_client", res) EXCEPT !.client = TRUE])
                 /\ IF MakedirsRaises(depot.root_exists)
                    THEN /\ depot' = [depot EXCEPT
                                        !.clients = Saved(@, client_name, loc.client)]
                         /\ Raise("FileExistsError")
                    ELSE /\ depot' = [depot EXCEPT
                                        !.clients = Saved(@, client_name, loc.client),
                                        !.root_exists = TRUE]
                         /\ hpc' = "chdir"
                         /\ UNCHANGED <<exc, cwd, callv, pc>>
            ELSE /\ SetConn(Noted(conn[self], "save_client", res))
                 /\ Raise("P4Exception")
                 /\ UNCHANGED depot
    /\ UNCHANGED <<vault_vars, applied, pipeline, scm_config, handlers, cur, loc, ncalls, events, shell>>

\* the body a method runs inside `with self._in_client():`
Body == IF callv.op = "checkout" THEN "probe" ELSE "scan"

\* _in_client: os.chdir(self.client_root), then yield
Chdir ==
    /\ Running
    /\ hpc = "chdir"
    /\ IF depot.root_exists
       THEN /\ cwd' = "root"
            /\ hpc' = Body
            /\ loc' = [loc EXCEPT !.in_client = TRUE]
            /\ UNCHANGED <<exc, callv, pc>>
       ELSE /\ Raise("FileNotFoundError")
            /\ UNCHANGED loc
    /\ UNCHANGED <<vault_vars, applied, pipeline, scm_config, handlers, cur, conn, depot, ncalls,
                   rpcs, events, shell>>

\* ------------------------------------------------- PerforceSCM.checkout
\* args: '-f' if self.sync_force, '@revision' if revision
SyncRpc(dry, res) ==
    [Rpc("sync", res) EXCEPT !.dry = dry, !.force = scm_config.sync_force,
                             !.rev = callv.revision]

\* if not in_sync or self.sync_force: run_sync(*args)
NeedRealSync(in_sync) == ~in_sync \/ scm_config.sync_force

\* variant: every exception of the probe is taken for 'up to date'
ProbeOutcomeLenient(res) == IF res = "ok" THEN "needs_sync" ELSE "in_sync"

\* the try / except around run_sync('-n', ...): 'File(s) up-to-date.' sets in_sync, any
\* other P4Exception is re-raised, no exception leaves in_sync False
ProbeOutcome(res) ==
    CASE res = "uptodate" -> "in_sync"
      [] res = "ok" -> "needs_sync"
      [] OTHER -> "fatal"

\* run_sync('-n', *args); 'File(s) up-to-date.' is caught, any other P4Exception re-raised
SyncProbe ==
    /\ Running
    /\ hpc = "probe"
    /\ \E res \in {"ok", "uptodate", "error"} :
         /\ Issue(SyncRpc(TRUE, res))
         /\ IF ProbeOutcome(res) = "fatal"
            THEN /\ Raise("P4Exception")
                 /\ UNCHANGED loc
            ELSE /\ loc' = [loc EXCEPT !.in_sync = (ProbeOutcome(res) = "in_sync")]
                 /\ IF NeedRealSync(ProbeOutcome(res) = "in_sync")
                    THEN /\ hpc' = "sync"
                         /\ UNCHANGED <<exc, cwd, callv, pc>>
                    ELSE Return
    /\ UNCHANGED <<vault_vars, applied, pipeline, scm_config, handlers, cur, conn, depot, ncalls, events,
                   shell>>

\* run_sync(*args): any P4Exception leaves checkout
SyncReal ==
    /\ Running
    /\ hpc = "sync"
    /\ \E res \in {"ok", "uptodate", "error"} :
         /\ Issue(SyncRpc(FALSE, res))
         /\ IF res = "ok" THEN Return ELSE Raise("P4Exception")
    /\ UNCHANGED <<vault_vars, applied, pipeline, scm_config, handlers, cur, loc, conn, depot, ncalls,
                   events, shell>>

\* -------------------------------------------------- PerforceSCM.cleanup
\* a command run on a session that is not connected fails
Answers(c) == IF c.connected THEN Results ELSE {"error"}

\* cleanup: self._connection.run_logout()
Logout ==
    /\ Running
    /\ hpc = "logout"
    /\ \E res \in Answers(conn[self]) :
         /\ Issue(Rpc("logout", res))
         /\ IF res = "ok"
            THEN /\ SetConn([conn[self] EXCEPT !.logged_in = FALSE, !.setup = <<>>])
                 /\ hpc' = "disconnect"
                 /\ UNCHANGED <<exc, cwd, callv, pc>>
            ELSE /\ SetConn([conn[self] EXCEPT !.setup = <<>>])
                 /\ Raise("P4Exception")
    /\ UNCHANGED <<vault_vars, applied, pipeline, scm_config, handlers, cur, loc, depot, ncalls, events,
                   shell>>

\* cleanup: self._connection.disconnect()
Disconnect ==
    /\ Running
    /\ hpc = "disconnect"
    /\ \E res \in Answers(conn[self]) :
         /\ Issue(Rpc("disconnect", res))
         /\ IF res = "ok"
            THEN /\ SetConn([conn[self] EXCEPT !.connected = FALSE])
                 /\ Return
            ELSE /\ Raise("P4Exception")
                 /\ UNCHANGED conn
    /\ UNCHANGED <<vault_vars, applied, pipeline, scm_config, handlers, cur, loc, depot, ncalls, events,
                   shell>>

\* --------------------------------------------------- PerforceSCM.upload
ReconcileRpc(dry, file, res) ==
    [Rpc("reconcile", res) EXCEPT !.dry = dry, !.file = file]

\* run_submit('-d', message): the depot submits the client's default changelist
SubmitRpc(res) ==
    [Rpc("submit", res) EXCEPT !.msg = callv.message, !.files = depot.opened]

\* the loops' next position once the current file is dealt with
NextFile == IF Tail(loc.matching_files) = <<>> THEN "scan" ELSE "dry"

\* for file_path in paths: matching_files = glob.glob(file_path); an empty result is
\* logged as a warning and the loop continues
GlobPath ==
    /\ Running
    /\ hpc = "scan"
    /\ loc.paths # <<>>
    /\ loc' = [loc EXCEPT !.paths = Tail(@), !.matching_files = Head(loc.paths)]
    /\ hpc' = IF Head(loc.paths) = <<>> THEN "scan" ELSE "dry"
    /\ UNCHANGED <<vault_vars, applied, pipeline, scm_config, handlers, pc, cur, callv, conn, cwd, exc,
                   depot, ncalls, rpcs, events, shell>>

\* variant: the 'no file(s) to reconcile' answer is not told apart from a change
DryOutcomeNoSentinel(res) == IF res = "error" THEN "fatal" ELSE "changed"

\* variant: a bare `except: continue`, every dry-run error skips the file
DryOutcomeSkipErrors(res) == IF res = "ok" THEN "changed" ELSE "skip"

\* the try / except / else around run_reconcile('-n', file): 'no file(s) to reconcile'
\* is caught (continue), any other P4Exception re-raised, no exception is a change
DryOutcome(res) ==
    CASE res = "nothing" -> "skip"
      [] res = "ok" -> "changed"
      [] OTHER -> "fatal"

\* run_reconcile('-n', os.path.abspath(file)); else: has_changes = True
DryReconcile ==
    /\ Running
    /\ hpc = "dry"
    /\ \E res \in {"ok", "nothing", "error"} :
         /\ Issue(ReconcileRpc(TRUE, Head(loc.matching_files), res))
         /\ CASE DryOutcome(res) = "skip" ->
                   /\ loc' = [loc EXCEPT !.matching_files = Tail(@)]
                   /\ hpc' = NextFile
                   /\ UNCHANGED <<exc, cwd, callv, pc>>
              [] DryOutcome(res) = "changed" ->
                   /\ loc' = [loc EXCEPT !.has_changes = TRUE]
                   /\ hpc' = "real"
                   /\ UNCHANGED <<exc, cwd, callv, pc>>
              [] OTHER ->
                   /\ Raise("P4Exception")
                   /\ UNCHANGED loc
    /\ UNCHANGED <<vault_vars, applied, pipeline, scm_config, handlers, cur, conn, depot, ncalls, events,
                   shell>>

\* run_reconcile(file): the depot opens the file in the client's default changelist
RealReconcile ==
    /\ Running
    /\ hpc = "real"
    /\ \E res \in Results :
         /\ Issue(ReconcileRpc(FALSE, Head(loc.matching_files), res))
         /\ IF res = "ok"
            THEN /\ depot' = [depot EXCEPT !.opened = @ \cup {Head(loc.matching_files)}]
                 /\ loc' = [loc EXCEPT !.matching_files = Tail(@)]
                 /\ hpc' = NextFile
                 /\ UNCHANGED <<exc, cwd, callv, pc>>
            ELSE /\ Raise("P4Exception")
                 /\ UNCHANGED <<depot, loc>>
    /\ UNCHANGED <<vault_vars, applied, pipeline, scm_config, handlers, cur, conn, ncalls, events, shell>>

\* if has_changes: run_submit('-d', message); return
Submit ==
    /\ Running
    /\ hpc = "scan"
    /\ loc.paths = <<>>
    /\ loc.has_changes
    /\ \E res \in Results :
         /\ Issue(SubmitRpc(res))
         /\ IF res = "ok"
            THEN /\ depot' = [depot EXCEPT !.opened = {}]
                 /\ Return
            ELSE \* a submit the server rejects leaves its files in a numbered pending
                 \* changelist; one that never reaches the server leaves them where they are
                 /\ \E left \in {depot.opened, {}} : depot' = [depot EXCEPT !.opened = left]
                 /\ Raise("P4Exception")
    /\ UNCHANGED <<vault_vars, applied, pipeline, scm_config, handlers, cur, loc, conn, ncalls, events,
                   shell>>

\* logging.info('Nothing to submit')
NothingToSubmit ==
    /\ Running
    /\ hpc = "scan"
    /\ loc.paths = <<>>
    /\ ~loc.has_changes
    /\ Return
    /\ UNCHANGED <<vault_vars, applied, pipeline, scm_config, handlers, cur, loc, conn, depot, ncalls,
                   rpcs, events, shell>>

\* ------------------------------------- one PerforceSCM object, called directly
Callable == pc = "api" /\ hpc = "idle" /\ ncalls < MaxCalls

\* the method call is over (returned or raised) and the caller goes on
ApiReturn ==
    /\ pc = "api"
    /\ hpc \in {"returned", "raised"}
    /\ hpc' = "idle"
    /\ callv' = NoCall
    /\ loc' = NoLocals
    /\ rpcs' = <<>>
    /\ exc' = None
    /\ UNCHANGED <<vault_vars, applied, pipeline, scm_config, handlers, pc, cur, conn, cwd, depot,
                   ncalls, events, shell>>

ApiCheckout ==
    /\ Callable
    /\ \E revision \in Revisions : BeginCall("checkout", revision, <<>>, None)
    /\ UNCHANGED <<vault_vars, applied, pipeline, scm_config, handlers, pc, cur, conn, cwd, depot, rpcs,
                   events, shell>>

ApiUpload ==
    /\ Callable
    /\ \E paths \in PathLists, message \in Messages :
         BeginCall("upload", None, paths, message)
    /\ UNCHANGED <<vault_vars, applied, pipeline, scm_config, handlers, pc, cur, conn, cwd, depot, rpcs,
                   events, shell>>

ApiCleanup ==
    /\ Callable
    /\ BeginCall("cleanup", None, <<>>, None)
    /\ UNCHANGED <<vault_vars, applied, pipeline, scm_config, handlers, pc, cur, conn, cwd, depot, rpcs,
                   events, shell>>

\* ------------------------------------------------------- specifications
InitCommon ==
    /\ handlers = <<>>
    /\ cur = 0
    /\ hpc = "idle"
    /\ callv = NoCall
    /\ loc = NoLocals
    /\ cwd = "prev"
    /\ exc = None
    /\ applied = <<>>
    /\ ncalls = 0
    /\ rpcs = <<>>
    /\ events = <<>>
    /\ shell = <<>>
    /\ connection_config = NoSection
    /\ vault_reads = <<>>

\* the program: Build(pipeline_file) then engine.run()
Init ==
    /\ pipeline \in Pipelines
    /\ config \in [main : MainConfigs, perforce_connection : ConnectionSections]
    /\ scm_config \in ScmConfigs
    /\ depot \in [opened : {{}}, root_exists : BOOLEAN, clients : {NoClients}]
    /\ pc = "load"
    /\ conn = [i \in 1..Len(pipeline) |-> Disconnected]
    /\ InitCommon

SetupSteps == Connect \/ TrustReset \/ TrustAccept \/ Login \/ FetchClient \/ SaveClient

Next ==
    \/ LoadAction \/ BuildRun \/ StartAction \/ RunCommand \/ HandlerCleanup
    \/ ActionCompleted \/ RunDone
    \/ EnterClient \/ SetupSteps \/ Chdir
    \/ SyncProbe \/ SyncReal
    \/ NothingToSubmit
    \/ Logout \/ Disconnect

Spec == Init /\ [][Next]_vars

\* one PerforceSCM object and a caller of its public methods
InitSCM ==
    /\ pipeline = <<>>
    /\ config = [main |-> CHOOSE m \in MainConfigs : m.vault_address /\ m.vault_token,
                 perforce_connection |-> <<Plain, Plain>>]
    /\ scm_config \in { c \in ScmConfigs : c.type = "perforce" }
    /\ depot \in [opened : {{}}, root_exists : BOOLEAN, clients : {NoClients}]
    /\ pc = "api"
    /\ conn = [i \in {1} |-> Disconnected]
    /\ InitCommon

NextSCM ==
    \/ ApiCheckout \/ ApiUpload \/ ApiCleanup \/ ApiReturn
    \/ EnterClient \/ SetupSteps \/ Chdir
    \/ SyncProbe \/ SyncReal
    \/ GlobPath \/ DryReconcile \/ RealReconcile \/ Submit \/ NothingToSubmit
    \/ Logout \/ Disconnect

SpecSCM == InitSCM /\ [][NextSCM]_vars

\* ------------------------------ Config.get_connection_config, called directly
\* get_connection_config(name) on a section holding one secret reference
GetSection ==
    /\ pc = "vault"
    /\ hpc = "idle"
    /\ \E answers \in [1..Len(config.perforce_connection) -> StoreAnswers] :
         LET got == GetConnectionConfig(answers) IN
           /\ vault_reads' = vault_reads \o got.reads
           /\ connection_config' = got.section
           /\ exc' = got.raised
           /\ hpc' = IF got.raised = None THEN "returned" ELSE "raised"
    /\ UNCHANGED <<config, applied, pipeline, scm_config, handlers, pc, cur, callv, loc, conn,
                   cwd, depot, ncalls, rpcs, events, shell>>

InitVault ==
    /\ pipeline = <<>>
    /\ pc = "vault"
    /\ conn = [i \in {1} |-> Disconnected]
    /\ config \in [main : MainConfigs,
                    perforce_connection : { <<Reference(a)>> : a \in Addresses }]
    /\ scm_config = CHOOSE c \in ScmConfigs : c.type = "perforce"
    /\ depot = [opened |-> {}, root_exists |-> FALSE, clients |-> NoClients]
    /\ InitCommon

NextVault == GetSection

SpecVault == InitVault /\ [][NextVault]_vars

\* --------------------------- PerforceSCM._create_client, applied repeatedly
\* the connection _connect() has brought to the call of _create_client()
Authenticated ==
    [connected |-> TRUE, logged_in |-> TRUE, client |-> FALSE,
     setup |-> <<<<"connect", "ok">>, <<"login", "ok">>>>]

\* _create_client() is called
WsApply ==
    /\ pc = "ws"
    /\ hpc = "idle"
    /\ ncalls < MaxCalls
    /\ ncalls' = ncalls + 1
    /\ hpc' = "fetch"
    /\ rpcs' = <<>>
    /\ exc' = None
    /\ loc' = NoLocals
    /\ UNCHANGED <<vault_vars, applied, pipeline, scm_config, handlers, pc, cur, callv,
                   conn, cwd, depot, events, shell>>

\* _create_client() has returned or raised: what it left on the depot and on disk
WsDone ==
    /\ pc = "ws"
    /\ hpc \in {"chdir", "raised"}
    /\ applied' = Append(applied, [clients |-> depot.clients,
                                   root_exists |-> depot.root_exists,
                                   raised |-> exc,
                                   answers |-> [i \in 1..Len(rpcs) |-> rpcs[i].res]])
    /\ hpc' = "idle"
    /\ UNCHANGED <<vault_vars, pipeline, scm_config, handlers, pc, cur, callv, loc,
                   conn, cwd, exc, depot, ncalls, rpcs, events, shell>>

InitWS ==
    /\ pipeline = <<>>
    /\ pc = "ws"
    /\ conn = [i \in {1} |-> Authenticated]
    /\ config = [main |-> CHOOSE m \in MainConfigs : m.vault_address /\ m.vault_token,
                 perforce_connection |-> <<Plain, Plain>>]
    /\ scm_config = CHOOSE c \in ScmConfigs : c.type = "perforce"
    /\ depot \in [opened : {{}}, root_exists : BOOLEAN, clients : ClientMaps]
    /\ InitCommon

NextWS == WsApply \/ FetchClient \/ SaveClient \/ WsDone

SpecWS == InitWS /\ [][NextWS]_vars

\* ================================================================ claims
\* the events a run of k started actions prints when each but possibly the last
\* one completed: started 1, completed 1, started 2, ...
Bracketed(i) ==
    IF i % 2 = 1 THEN <<"started", (i + 1) \div 2>> ELSE <<"completed", i \div 2>>

\* C1: Build.run is sequential and fail-fast. Actions start in declaration order, an
\* action starts only after the one before it completed, and once executing action k
\* has failed no later action is started: the run is over with action k the last one
\* started and not completed.
C1_FailFast ==
    /\ \A i \in 1..Len(events) : events[i] = Bracketed(i)
    /\ hpc = "raised" =>
         /\ pc = "run_failed"
         /\ cur >= 1
         /\ events[Len(events)] = <<"started", cur>>
         /\ ~ENABLED StartAction

\* action 1 of a two-action pipeline failed while executing
C1_Witness ==
    /\ pc = "run_failed"
    /\ cur = 1
    /\ Len(handlers) = 2
    /\ exc # None

\* ---------------------------------------------------- reading the history
\* positions in rpcs of the RPCs `op`, dry-run or real
At(op, dry) == { i \in 1..Len(rpcs) : rpcs[i].op = op /\ rpcs[i].dry = dry }

Probes == At("sync", TRUE)
RealSyncs == At("sync", FALSE)
DryRuns == At("reconcile", TRUE)
RealReconciles == At("reconcile", FALSE)
Submits == At("submit", FALSE)
Logouts == At("logout", FALSE)
Disconnects == At("disconnect", FALSE)

\* the running action's handler has ended: control is back in Build.run
ActionOver == pc \in {"run", "run_failed", "done"} /\ cur >= 1 /\ hpc \in {"idle", "raised"}

ActionSucceeded == \E i \in 1..Len(events) : events[i] = <<"completed", cur>>

\* the running action is a checkout whose probe was answered `res`
ProbeAnswered(res) ==
    /\ cur >= 1
    /\ handlers[cur].kind = "checkout"
    /\ \E i \in Probes : rpcs[i].res = res

\* C2: in a checkout one dry-run probe is issued, before any real sync; once the probe
\* is classified (NeedsSync or up to date) the real sync is issued iff NeedsSync or
\* sync_force; and a checkout action whose probe answered 'up to date' with sync_force
\* unset issues no real sync and reports success.
C2_Claim ==
    /\ Cardinality(Probes) <= 1
    /\ \A i \in RealSyncs : \E j \in Probes : j < i
    /\ \A res \in {"ok", "uptodate"} :
         ProbeAnswered(res) /\ hpc \notin {"probe", "sync"} =>
           (RealSyncs # {} <=> (res = "ok" \/ scm_config.sync_force))
    /\ ProbeAnswered("uptodate") /\ ~scm_config.sync_force /\ ActionOver =>
         RealSyncs = {} /\ ActionSucceeded

\* the handler of action i has ended, normally or with an exception
HandlerOver(i) == i < cur \/ (i = cur /\ hpc \in {"idle", "raised"})

\* C6: once an SCM-backed handler that opened a connection has ended, whether its SCM
\* operation succeeded or failed, logout and disconnect were attempted and its
\* connection is no longer connected.
C6_Claim ==
    \A i \in DOMAIN conn :
      HandlerOver(i) =>
        /\ ~conn[i].connected
        /\ (i = cur /\ (\E k \in 1..Len(rpcs) : rpcs[k].op = "connect" /\ rpcs[k].res = "ok"))
             => Logouts # {} /\ Disconnects # {}

\* C7: cleanup attempts logout and then the session close even when logout fails, and a
\* failure of either is not raised: an action whose SCM operation returned normally
\* reports success.
C7_Claim ==
    /\ (Logouts # {} /\ hpc \in {"returned", "raised", "idle"}) => Disconnects # {}
    /\ (ActionOver /\ callv.op = "cleanup") => ActionSucceeded /\ exc = None

\* C8: a pipeline holding an action of unrecognized or missing kind never gets past loading: no
\* action is started, no depot RPC is issued, no shell command is run, and a load
\* that failed has raised.
C8_LoadFailsFirst ==
    /\ (\E i \in 1..Len(pipeline) : pipeline[i].kind \notin {"checkout", "command", "upload"})
         => /\ pc \in {"load", "load_failed"}
            /\ events = <<>> /\ rpcs = <<>> /\ shell = <<>> /\ ncalls = 0 /\ cur = 0
    /\ pc = "load_failed" =>
         exc # None /\ events = <<>> /\ rpcs = <<>> /\ shell = <<>> /\ ncalls = 0

\* the bad action is declared second: the first action's handler was constructed, and
\* loading failed without it ever starting
C8_Witness ==
    /\ pc = "load_failed"
    /\ Len(handlers) = 1
    /\ handlers[1].kind = "checkout"
    /\ pipeline[2].kind = "deploy"

\* ------------------------------------------------ one object, SpecSCM
\* the files an upload examines: every pattern's expansion, in order
RECURSIVE Flatten(_)
Flatten(paths) == IF paths = <<>> THEN <<>> ELSE Head(paths) \o Flatten(Tail(paths))

\* the candidates whose dry-run reconcile returned normally
Modified == { rpcs[i].file : i \in { j \in DryRuns : rpcs[j].res = "ok" } }

\* the upload has examined every candidate and gone past its loops
Scanned ==
    /\ callv.op = "upload"
    /\ loc.in_client
    /\ callv.status = "ok" \/ Submits # {}

\* C3: an upload that has scanned its K candidates and found M >= 1 of them modified
\* has called submit exactly once, and the submitted fileset is exactly those M files.
C3_Claim ==
    Scanned /\ Modified # {} =>
      /\ Cardinality(Submits) = 1
      /\ \A i \in Submits : rpcs[i].files = Modified

\* the upload is over, normally or with an exception
UploadOver == callv.op = "upload" /\ callv.status \in {"ok", "raised"}

\* C4: an upload that entered the workspace and got 'nothing to reconcile' for every
\* candidate it examined (also when there is no candidate, or a pattern expands to no
\* file) has examined all of them, issued no real reconcile and no submit, and ended
\* normally.
C4_NothingToSubmit ==
    ( /\ UploadOver
      /\ loc.in_client
      /\ \A i \in DryRuns : rpcs[i].res = "nothing" )
    => /\ [k \in 1..Cardinality(DryRuns) |->
             rpcs[CHOOSE i \in DryRuns : Cardinality({j \in DryRuns : j <= i}) = k].file]
            = Flatten(callv.paths)
       /\ RealReconciles = {}
       /\ Submits = {}
       /\ callv.status = "ok"
       /\ exc = None

\* a pattern expanding to two files, both unchanged: the upload returned without submit
C4_Witness ==
    /\ UploadOver
    /\ loc.in_client
    /\ Cardinality(DryRuns) = 2
    /\ \A i \in DryRuns : rpcs[i].res = "nothing"
    /\ callv.status = "ok"

\* C5: the submit RPC always carries a message: the one given for the upload, or the
\* placeholder commit message when none is given, never an absent one.
C5_Claim ==
    \A i \in Submits :
      /\ rpcs[i].msg # None
      /\ rpcs[i].msg \in (Messages \ {None}) \cup {DEFAULT_SUBMIT_MESSAGE}

\* the setup RPCs noted on the object's connection since the last cleanup
Setup == conn[1].setup

\* C9 as stated: between two cleanups no connection-setup RPC (connect, trust, login,
\* workspace fetch / save) is issued a second time.
C9_Claim ==
    \A i, j \in 1..Len(Setup) : i < j => Setup[i][1] # Setup[j][1]

\* C9 amended: between two cleanups the only setup RPC issued again is a session
\* connect, and only after every earlier connect failed; so the session is connected
\* at most once and trust, login and the workspace setup are issued at most once.
C9_ConnectOnce ==
    \A i, j \in 1..Len(Setup) :
      (i < j /\ Setup[i][1] = Setup[j][1]) => Setup[i] = <<"connect", "error">>

\* a second call entered on the authenticated connection reaches its body having
\* issued no setup RPC
C9_Witness ==
    /\ ncalls = 2
    /\ conn[1].connected /\ conn[1].logged_in /\ conn[1].client
    /\ loc.in_client
    /\ rpcs = <<>>
    /\ Len(Setup) >= 4

SetupOps == {"connect", "trust_reset", "trust_accept", "login", "fetch_client", "save_client"}

\* the setup RPCs of the running call, in order
SetupIssued == SelectSeq(rpcs, LAMBDA r : r.op \in SetupOps)

ExpectedSetup ==
    IF scm_config.server_trust
    THEN <<"connect", "trust_reset", "trust_accept", "login", "fetch_client", "save_client">>
    ELSE <<"connect", "login", "fetch_client", "save_client">>

\* C10: a call's connection setup issues connect, then with server_trust trust-reset
\* and trust-accept (without it no trust RPC), then login, then the workspace setup,
\* each once and each only after the one before succeeded; a failed login is the last
\* RPC of its call, which raises, and login is not issued again before a cleanup.
C10_TrustThenLogin ==
    /\ Len(SetupIssued) <= Len(ExpectedSetup)
    /\ \A i \in 1..Len(SetupIssued) :
         /\ SetupIssued[i].op = ExpectedSetup[i]
         /\ i < Len(SetupIssued) => SetupIssued[i].res = "ok"
    /\ \A i \in 1..Len(rpcs) :
         (rpcs[i].op = "login" /\ rpcs[i].res = "error") =>
           i = Len(rpcs) /\ hpc = "raised" /\ exc = "P4Exception"
    /\ Cardinality({ i \in 1..Len(Setup) : Setup[i][1] = "login" }) <= 1

\* with server_trust set, login failed after the trust handshake and the call raised
C10_Witness ==
    /\ scm_config.server_trust
    /\ hpc = "raised"
    /\ Len(rpcs) = 4
    /\ rpcs[2].op = "trust_reset" /\ rpcs[3].op = "trust_accept"
    /\ rpcs[4].op = "login" /\ rpcs[4].res = "error"

\* ------------------------------------------------------- pipeline, Spec
\* the sync RPCs of the running action
Syncs == Probes \cup RealSyncs

\* C11: a checkout action declared with a revision issues its probe and its real sync
\* qualified with exactly that revision, one declared without a revision issues them
\* with no revision qualifier, and the probe and the real sync carry the same flags.
C11_Claim ==
    (pc \in {"run", "run_failed", "done"} /\ cur >= 1) =>
      /\ \A i \in Syncs : rpcs[i].rev = pipeline[cur].revision
      /\ \A i, j \in Syncs : rpcs[i].force = rpcs[j].force /\ rpcs[i].rev = rpcs[j].rev

\* the shell commands action a has run, in the order they ran
Ran(a) == SelectSeq(shell, LAMBDA e : e.act = a)

\* C12: a command action runs its commands in list order, one after the other; the
\* first one that exits non-zero raises out of the action: it is the last command run
\* at all, the action is not completed, the run is over and no later action starts. An
\* action whose commands all exited zero has run every one of them.
C12_CommandFailFast ==
    /\ \A a \in 1..Len(handlers) :
         /\ Len(Ran(a)) <= Len(handlers[a].commands)
         /\ \A k \in 1..Len(Ran(a)) : Ran(a)[k].cmd = handlers[a].commands[k]
         /\ (\E i \in 1..Len(events) : events[i] = <<"completed", a>>)
              /\ handlers[a].kind = "command"
              => Len(Ran(a)) = Len(handlers[a].commands)
    /\ \A i \in 1..Len(shell) :
         shell[i].status # 0 =>
           /\ i = Len(shell)
           /\ shell[i].act = cur
           /\ pc = "run_failed" /\ hpc = "raised" /\ exc = "RuntimeError"
           /\ \A j \in 1..Len(events) : events[j] # <<"completed", cur>>
           /\ ~ENABLED RunCommand /\ ~ENABLED StartAction

\* the first of two commands of action 1 exited non-zero: the second never ran and
\* action 2 never started
C12_Witness ==
    /\ pc = "run_failed"
    /\ Len(handlers) = 2
    /\ cur = 1
    /\ handlers[1].commands = <<"c1", "c2">>
    /\ Len(shell) = 1 /\ shell[1].status = 1

\* C13: every secret-store read is made before the first handler is constructed, and no
\* secret is read more than once in a run, also when several actions use the same
\* connection configuration.
C13_Claim ==
    /\ \A i \in 1..Len(vault_reads) : vault_reads[i].built = 0
    /\ \A i, j \in 1..Len(vault_reads) :
         i < j => <<vault_reads[i].mount, vault_reads[i].path, vault_reads[i].key>>
                    # <<vault_reads[j].mount, vault_reads[j].path, vault_reads[j].key>>

\* ------------------------------------------------- one reference, SpecVault
\* the reference being resolved (the text after vault://) and where its separators are
Address == config.perforce_connection[1].text

Positions(c) == { i \in 1..Len(Address) : Address[i] = c }

First(c) == CHOOSE i \in Positions(c) : \A j \in Positions(c) : i <= j

\* <mount>/<path>#<key> with one '#', a non-empty mount and a non-empty key
WellFormed ==
    /\ Cardinality(Positions("#")) = 1
    /\ Positions("/") # {}
    /\ 1 < First("/") /\ First("/") < First("#")
    /\ First("#") < Len(Address)

LacksKey == Positions("#") = {} \/ First("#") = Len(Address)

LacksMount == Address = <<>> \/ Address[1] \in {"/", "#"}

\* C14: once a reference vault://<mount>/<path>#<key> is resolved, the secret store was
\* read once, with mount = the text before the first '/', path = the text between
\* that '/' and the '#', and the key looked up = the text after the '#'; a reference
\* with no '#key' or with no mount raises and no secret-store read is made.
C14_Decomposed ==
    (pc = "vault" /\ hpc # "idle") =>
      /\ (LacksKey \/ LacksMount) =>
           hpc = "raised" /\ exc = "ValueError" /\ vault_reads = <<>>
      /\ (WellFormed /\ config.main.vault_address /\ config.main.vault_token) =>
           vault_reads = << [mount |-> SubSeq(Address, 1, First("/") - 1),
                             path |-> SubSeq(Address, First("/") + 1, First("#") - 1),
                             key |-> SubSeq(Address, First("#") + 1, Len(Address)),
                             built |-> 0] >>

\* a reference whose path has two segments was resolved: mount a, path b/a, key b
C14_Witness ==
    /\ pc = "vault" /\ hpc = "returned"
    /\ Address = <<"a", "/", "b", "/", "a", "#", "b">>
    /\ Len(vault_reads) = 1
    /\ vault_reads[1].path = <<"b", "/", "a">>
    /\ connection_config = <<[ref |-> FALSE, text |-> SecretText]>>

\* ------------------------------------------------------- pipeline, Spec
\* handler i is SCM-backed
ScmHandler(i) == handlers[i].kind \in {"checkout", "upload"}

\* C15: constructing an SCM-backed handler leaves the pipeline's scm entry as it was,
\* so a later action naming the same scm is constructed too (its construction fails
\* only on a secret-store read of its own); every depot RPC of the running action is
\* issued on that action's connection, and the connection of a handler that has not
\* run yet, or that is not SCM-backed, is never touched.
C15_OwnConnection ==
    /\ (\E i \in 1..Len(handlers) : ScmHandler(i)) => scm_config.type = "perforce"
    /\ ( /\ pc = "load_failed"
         /\ \E i \in 1..Len(handlers) : ScmHandler(i)
         /\ IsScm(pipeline[Len(handlers) + 1])
         /\ pipeline[Len(handlers) + 1].scm_name \in ScmNames )
       => /\ vault_reads # <<>>
          /\ vault_reads[Len(vault_reads)].built = Len(handlers)
    /\ \A i \in 1..Len(rpcs) : rpcs[i].conn = cur /\ ScmHandler(cur)
    /\ \A i \in DOMAIN conn :
         (i > cur \/ (i <= Len(handlers) /\ ~ScmHandler(i))) => conn[i] = Disconnected

\* two checkout actions on the same scm were both constructed; the first has run and
\* closed its connection, the second is issuing RPCs on its own
C15_Witness ==
    /\ Len(handlers) = 2
    /\ pipeline[1].scm_name = "main" /\ pipeline[2].scm_name = "main"
    /\ ScmHandler(1) /\ ScmHandler(2)
    /\ cur = 2
    /\ rpcs # <<>> /\ rpcs[1].conn = 2
    /\ conn[2].connected /\ ~conn[1].connected

\* --------------------------------------------- one workspace, SpecWS
\* C16: ensuring the workspace is idempotent. Once the definition has been applied,
\* applying it again leaves the depot's workspace specs (the same names, the same
\* spec under each) and the root directory as the first application left them, and
\* an application whose depot RPCs were answered raises no error; the workspace it
\* leaves is the one definition: stream, root and options as configured.
C16_Idempotent ==
    /\ \A k \in 1..Len(applied) :
         applied[k].answers = <<"ok", "ok">> =>
           /\ applied[k].raised = None
           /\ applied[k].root_exists
           /\ client_name \in DOMAIN applied[k].clients
           /\ applied[k].clients[client_name].Stream = Stream
           /\ applied[k].clients[client_name].Root = Root
           /\ applied[k].clients[client_name].Options = Options
    /\ \A k \in 2..Len(applied) :
         applied[k - 1].answers = <<"ok", "ok">> =>
           /\ applied[k].clients = applied[k - 1].clients
           /\ DOMAIN applied[k].clients = DOMAIN applied[k - 1].clients
           /\ applied[k].root_exists = applied[k - 1].root_exists

\* the definition was applied twice, both times through, on a depot that held another
\* workspace and none of this name
C16_Witness ==
    /\ Len(applied) = 2
    /\ applied[1].answers = <<"ok", "ok">> /\ applied[2].answers = <<"ok", "ok">>
    /\ DOMAIN applied[2].clients = ClientNames
    /\ applied[2].raised = None

\* ------------------------------------------------------- pipeline, Spec
Emitted(e) == \E i \in 1..Len(events) : events[i] = e

\* C17: the events are started 1, completed 1, started 2, ... with nothing interleaved;
\* no handler has any effect (a depot RPC, a connection opened, a shell command) before
\* its action's 'started'; while a handler runs the last event is its 'started';
\* 'completed' is emitted only once the whole handler, cleanup included, has returned,
\* and never for a handler that raised.
C17_Bracketed ==
    /\ \A i \in 1..Len(events) : events[i] = Bracketed(i)
    /\ \A a \in DOMAIN conn :
         (conn[a] # Disconnected \/ Ran(a) # <<>> \/ (a = cur /\ rpcs # <<>>))
           => Emitted(<<"started", a>>)
    /\ (pc = "run" /\ hpc \notin {"idle", "raised"}) =>
         events[Len(events)] = <<"started", cur>>
    /\ \A a \in DOMAIN conn :
         Emitted(<<"completed", a>>) =>
           /\ HandlerOver(a)
           /\ ~conn[a].connected
           /\ a = cur =>
                /\ hpc = "idle" /\ exc = None
                /\ ScmHandler(a) => callv.op = "cleanup" /\ callv.status = "ok"
                /\ ~ScmHandler(a) => Len(Ran(a)) = Len(handlers[a].commands)
    /\ hpc = "raised" => ~Emitted(<<"completed", cur>>)

\* action 1, SCM-backed, completed after its cleanup; action 2 is running and has
\* issued RPCs after its 'started'
C17_Witness ==
    /\ events = << <<"started", 1>>, <<"completed", 1>>, <<"started", 2>> >>
    /\ ScmHandler(1)
    /\ pc = "run" /\ hpc \notin {"idle", "raised"}
    /\ rpcs # <<>>

\* ------------------------------------------------ one object, SpecSCM
\* C18: in an upload a dry-run reconcile answered with an error other than 'no file(s)
\* to reconcile' ends the upload at once: it is the last RPC of the call, which raises
\* with no submit issued, also when earlier candidates were reconciled. A real
\* reconcile is issued only right after a dry-run of the same file that returned
\* normally, and every such dry-run is followed by it.
C18_DryErrorFatal ==
    /\ \A i \in DryRuns :
         rpcs[i].res = "error" =>
           /\ i = Len(rpcs)
           /\ hpc = "raised" /\ exc = "P4Exception" /\ callv.status = "raised"
           /\ Submits = {}
           /\ ~ENABLED DryReconcile /\ ~ENABLED RealReconcile /\ ~ENABLED Submit
    /\ \A i \in RealReconciles :
         /\ i - 1 \in DryRuns
         /\ rpcs[i - 1].file = rpcs[i].file
         /\ rpcs[i - 1].res = "ok"
    /\ \A i \in DryRuns :
         i < Len(rpcs) =>
           (rpcs[i].res = "ok" <=> i + 1 \in RealReconciles)

\* the first candidate was found modified and reconciled, the dry-run of the second
\* failed: the upload raised without a submit
C18_Witness ==
    /\ callv.op = "upload" /\ hpc = "raised"
    /\ Cardinality(RealReconciles) = 1
    /\ Cardinality(DryRuns) = 2
    /\ rpcs[Len(rpcs)].op = "reconcile" /\ rpcs[Len(rpcs)].dry
    /\ rpcs[Len(rpcs)].res = "error"
    /\ depot.opened # {}

\* C19: in a checkout a probe answered with an error other than 'File(s) up-to-date.'
\* ends the checkout at once: it is the last RPC of the call, which raises with no
\* real sync issued, with sync_force set or not. A real sync is issued only right
\* after a probe that returned normally or, with sync_force, reported up to date.
C19_ProbeErrorFatal ==
    /\ \A i \in Probes :
         rpcs[i].res = "error" =>
           /\ i = Len(rpcs)
           /\ hpc = "raised" /\ exc = "P4Exception" /\ callv.status = "raised"
           /\ RealSyncs = {}
           /\ ~ENABLED SyncReal
    /\ \A i \in RealSyncs :
         /\ i - 1 \in Probes
         /\ rpcs[i - 1].res \in {"ok", "uptodate"}
         /\ rpcs[i - 1].res = "uptodate" => scm_config.sync_force

\* with sync_force set the probe failed and the checkout raised without a real sync
C19_Witness ==
    /\ scm_config.sync_force
    /\ callv.op = "checkout" /\ hpc = "raised"
    /\ Probes # {} /\ RealSyncs = {}
    /\ rpcs[Len(rpcs)].op = "sync" /\ rpcs[Len(rpcs)].res = "error"

\* the RPCs that act on the workspace
WorkspaceOps == {"sync", "reconcile", "submit"}

\* C20: whatever calls are made on the object, also after a call that failed part-way
\* through its connection setup, every sync, reconcile and submit RPC is issued on a
\* connection that is logged in and on which the workspace has been ensured.
C20_Claim ==
    \A i \in 1..Len(rpcs) :
      rpcs[i].op \in WorkspaceOps =>
        conn[1].connected /\ conn[1].logged_in /\ conn[1].client

====
